---- MODULE Spec2Model ----
(***************************************************************************)
(* The conditional polling loop of asa_command.main(): run the command     *)
(* batch, evaluate the remaining wait_for conditionals against the         *)
(* responses, drop the satisfied ones, sleep, retry, and finally either    *)
(* fail_json with the conditionals left or exit_json with the responses.   *)
(***************************************************************************)
EXTENDS Integers, Sequences, FiniteSets, TLC

\* ---------------------------------------------------------------- bounds
MaxRetries == 3

MaxConds == 3

MaxInterval == 1

\* Condition texts.  A GoodText parses into a Conditional; a BadText makes
\* the Conditional constructor raise.
GoodTexts == {"a", "b", "c"}

BadTexts == {"bad"}

Texts == GoodTexts \cup BadTexts

Matches == {"all", "any"}

RetriesValues == -1 .. MaxRetries

IntervalValues == 0 .. MaxInterval

RECURSIVE SeqsUpTo(_, _)
SeqsUpTo(S, n) ==
    IF n = 0 THEN {<<>>}
    ELSE LET shorter == SeqsUpTo(S, n - 1)
         IN  shorter \cup {Append(s, x) : s \in {t \in shorter : Len(t) = n - 1}, x \in S}

\* module.params['wait_for']: None (absent) or a list of condition texts
WaitForParams ==
    {[present |-> FALSE, list |-> <<>>]}
        \cup {[present |-> TRUE, list |-> l] : l \in SeqsUpTo(Texts, MaxConds)}

VARIABLES
    params,             \* module.params: wait_for, match, retries, interval
    pc,                 \* position of main()
    wait_for,           \* local wait_for (line 161)
    conditionals,       \* local conditionals: list of Conditional objects
    retries,            \* local retries, counted down
    responses,          \* local responses; unbound until run_commands returns
    iter,               \* the list(conditionals) copy the for loop walks
    idx,                \* position of the for loop in iter (1-based)
    outcome,            \* how the module ended
    failed_conditions,  \* fail_json(failed_conditions=...)
    stdout,             \* exit_json(stdout=...)
    stdout_lines,       \* exit_json(stdout_lines=...)
    calls,              \* number of run_commands invocations
    sleeps,             \* number of time.sleep invocations
    slept,              \* total seconds slept
    hist,               \* hist[k]: the texts true of the batch of attempt k
    evals               \* log of conditional evaluations

vars == <<params, pc, wait_for, conditionals, retries, responses, iter, idx,
          outcome, failed_conditions, stdout, stdout_lines, calls, sleeps, slept,
          hist, evals>>

\* ------------------------------------------------------------ helpers
Range(s) == {s[i] : i \in 1 .. Len(s)}

\* the name `responses` before line 170 has bound it
Unbound == [bound |-> FALSE, batch |-> 0, sat |-> {}]

\* Conditional(c): an object with its own identity and the raw text
Conditional(i, c) == [id |-> i, raw |-> c]

\* [Conditional(c) for c in wait_for]
CompileAll(wf) == [i \in 1 .. Len(wf) |-> Conditional(i, wf[i])]

\* item(responses): the conditional's verdict on a batch
Call(item, resp) == item.raw \in resp.sat

\* list.remove done as swap-with-last-and-pop: the order is not kept
ListRemoveSwap(l, item) ==
    IF \E p \in 1 .. Len(l) : l[p] = item
    THEN LET p == CHOOSE q \in 1 .. Len(l) :
                      l[q] = item /\ \A r \in 1 .. (q - 1) : l[r] # item
         IN  [q \in 1 .. (Len(l) - 1) |-> IF q = p THEN l[Len(l)] ELSE l[q]]
    ELSE l

\* list.remove(item): drop the first element equal to item
RECURSIVE ListRemove(_, _)
ListRemove(l, item) ==
    IF l = <<>> THEN <<>>
    ELSE IF Head(l) = item THEN Tail(l)
    ELSE <<Head(l)>> \o ListRemove(Tail(l), item)

\* The outputs of a batch, one per command.  An output is a text blob, kept
\* as its sequence of characters, or a value that is already a list.  The
\* blob of attempt k is k '#' characters and then one line per condition
\* text true of the batch; the list output holds the attempt number.
TextOrder == <<"a", "b", "c">>

RECURSIVE BlobTail(_, _)
BlobTail(sat, i) ==
    IF i > Len(TextOrder) THEN <<>>
    ELSE (IF TextOrder[i] \in sat THEN <<"\n", TextOrder[i]>> ELSE <<>>)
            \o BlobTail(sat, i + 1)

Output(resp) ==
    << [str |-> TRUE,  val |-> [i \in 1 .. resp.batch |-> "#"] \o BlobTail(resp.sat, 1)],
       [str |-> FALSE, val |-> <<resp.batch>>] >>

\* str.split(sep): the pieces between the separators, empty pieces kept
RECURSIVE Split(_, _)
Split(chars, sep) ==
    IF \A i \in 1 .. Len(chars) : chars[i] # sep
    THEN <<chars>>
    ELSE LET i == CHOOSE j \in 1 .. Len(chars) :
                      chars[j] = sep /\ \A k \in 1 .. (j - 1) : chars[k] # sep
         IN  <<SubSeq(chars, 1, i - 1)>> \o Split(SubSeq(chars, i + 1, Len(chars)), sep)

\* lines 135-139, to_lines: a string item is split at '\n', any other item
\* is passed through
ToLines(out) ==
    [i \in 1 .. Len(out) |-> IF out[i].str THEN Split(out[i].val, "\n") ELSE out[i].val]

\* [item.raw for item in conditionals]
Raws(conds) == [i \in 1 .. Len(conds) |-> conds[i].raw]

\* ---------------------------------------------------------------- Init
Init ==
    /\ params \in [wait_for : WaitForParams, match : Matches,
                   retries : RetriesValues, interval : IntervalValues]
    /\ pc = "start"
    /\ wait_for = <<>>
    /\ conditionals = <<>>
    /\ retries = 0
    /\ responses = Unbound
    /\ iter = <<>>
    /\ idx = 1
    /\ outcome = "running"
    /\ failed_conditions = <<>>
    /\ stdout = Unbound
    /\ stdout_lines = <<>>
    /\ calls = 0
    /\ sleeps = 0
    /\ slept = 0
    /\ hist = <<>>
    /\ evals = <<>>

\* ------------------------------------------------------- code conditions
\* the loop bound off by one: while retries >= 0
WhileCondInclusive(r) == r >= 0

\* line 169: while retries > 0
WhileCond(r) == r > 0

\* the for loop walks the list it is removing from
IterListLive(copy, live) == live

\* line 172: the for loop walks a copy, list(conditionals), not the live list
IterList(copy, live) == copy

\* the policy compared with a text match never has
IsAnyMistyped(m) == m = "ANY"

\* line 174: if match == 'any'
IsAny(m) == m = "any"

\* match=any handled like match=all: only the satisfied conditional goes
AnyRemoveOne(conds, item) == ListRemove(conds, item)

\* line 175: conditionals = list()
AnyClear(conds, item) == <<>>

\* the break forgotten: the loop runs on until retries is used up
LoopBreakForgotten(conds) == FALSE

\* the break test inverted
LoopBreakInverted(conds) == conds # <<>>

\* line 179: if not conditionals: break
LoopBreak(conds) == conds = <<>>

\* the failure test tolerating one conditional left
HasFailedSeveral(conds) == Len(conds) > 1

\* line 185: if conditionals
HasFailed(conds) == conds # <<>>

\* line 186: failed_conditions = [item.raw for item in conditionals]
FailedConditions(conds) == Raws(conds)

\* the batches run_commands can return on one attempt, told apart by the
\* verdicts the session's conditionals give on them
Batches(wf) == SUBSET (GoodTexts \cap Range(wf))

\* -------------------------------------------------------------- actions
\* the conditions compiled one by one when first evaluated, not up front:
\* the loop is entered whatever the texts are
StartOkLazy ==
    /\ pc = "start"
    /\ wait_for' = params.wait_for.list
    /\ conditionals' = CompileAll(params.wait_for.list)
    /\ retries' = params.retries
    /\ pc' = "while"
    /\ UNCHANGED <<params, responses, iter, idx, outcome, failed_conditions,
                   stdout, stdout_lines, calls, sleeps, slept, hist, evals>>

\* lines 161-167, every Conditional(c) constructed
StartOk ==
    /\ pc = "start"
    /\ Range(params.wait_for.list) \cap BadTexts = {}
    /\ wait_for' = params.wait_for.list
    /\ conditionals' = CompileAll(params.wait_for.list)
    /\ retries' = params.retries
    /\ pc' = "while"
    /\ UNCHANGED <<params, responses, iter, idx, outcome, failed_conditions,
                   stdout, stdout_lines, calls, sleeps, slept, hist, evals>>

\* lines 161-162, a Conditional(c) raises
StartFail ==
    /\ pc = "start"
    /\ Range(params.wait_for.list) \cap BadTexts # {}
    /\ wait_for' = params.wait_for.list
    /\ outcome' = "compile_error"
    /\ pc' = "done"
    /\ UNCHANGED <<params, conditionals, retries, responses, iter, idx,
                   failed_conditions, stdout, stdout_lines, calls, sleeps, slept, hist, evals>>

\* line 169
WhileTest ==
    /\ pc = "while"
    /\ pc' = IF WhileCond(retries) THEN "run" ELSE "after"
    /\ UNCHANGED <<params, wait_for, conditionals, retries, responses, iter, idx,
                   outcome, failed_conditions, stdout, stdout_lines, calls, sleeps, slept,
                   hist, evals>>

\* every attempt starts again from the full list of conditionals
RunCommandsOkReset ==
    /\ pc = "run"
    /\ calls < MaxRetries + 1
    /\ \E sat \in Batches(wait_for) :
          /\ responses' = [bound |-> TRUE, batch |-> calls + 1, sat |-> sat]
          /\ hist' = Append(hist, sat)
    /\ calls' = calls + 1
    /\ conditionals' = CompileAll(wait_for)
    /\ iter' = conditionals'
    /\ idx' = 1
    /\ pc' = "for"
    /\ UNCHANGED <<params, wait_for, retries, outcome,
                   failed_conditions, stdout, stdout_lines, sleeps, slept, evals>>

\* line 170, run_commands returns a batch; line 172 copies the list
RunCommandsOk ==
    /\ pc = "run"
    /\ calls < MaxRetries + 1
    /\ \E sat \in Batches(wait_for) :
          /\ responses' = [bound |-> TRUE, batch |-> calls + 1, sat |-> sat]
          /\ hist' = Append(hist, sat)
    /\ calls' = calls + 1
    /\ iter' = conditionals
    /\ idx' = 1
    /\ pc' = "for"
    /\ UNCHANGED <<params, wait_for, conditionals, retries, outcome,
                   failed_conditions, stdout, stdout_lines, sleeps, slept, evals>>

\* a failure of run_commands caught and treated as "not satisfied yet"
RunCommandsFailSwallowed ==
    /\ pc = "run"
    /\ calls < MaxRetries + 1
    /\ calls' = calls + 1
    /\ pc' = "sleep"
    /\ UNCHANGED <<params, wait_for, conditionals, retries, responses, iter, idx,
                   outcome, failed_conditions, stdout, stdout_lines, sleeps, slept, hist, evals>>

\* line 170, run_commands fails: nothing in main() catches it
RunCommandsFail ==
    /\ pc = "run"
    /\ calls < MaxRetries + 1
    /\ calls' = calls + 1
    /\ outcome' = "transport_error"
    /\ pc' = "done"
    /\ UNCHANGED <<params, wait_for, conditionals, retries, responses, iter, idx,
                   failed_conditions, stdout, stdout_lines, sleeps, slept, hist, evals>>

\* lines 172-177, one turn of the for loop
ForBody ==
    /\ pc = "for"
    /\ idx <= Len(IterList(iter, conditionals))
    /\ LET item == IterList(iter, conditionals)[idx]
           v    == Call(item, responses)
       IN  /\ evals' = Append(evals, [id |-> item.id, attempt |-> calls, val |-> v])
           /\ IF v /\ IsAny(params.match)
              THEN /\ conditionals' = AnyClear(conditionals, item)
                   /\ pc' = "check"
                   /\ idx' = idx
              ELSE /\ conditionals' = IF v THEN ListRemove(conditionals, item)
                                           ELSE conditionals
                   /\ pc' = "for"
                   /\ idx' = idx + 1
    /\ UNCHANGED <<params, wait_for, retries, responses, iter, outcome,
                   failed_conditions, stdout, stdout_lines, calls, sleeps, slept, hist>>

\* line 172, the for loop is exhausted
ForDone ==
    /\ pc = "for"
    /\ idx > Len(IterList(iter, conditionals))
    /\ pc' = "check"
    /\ UNCHANGED <<params, wait_for, conditionals, retries, responses, iter, idx,
                   outcome, failed_conditions, stdout, stdout_lines, calls, sleeps, slept,
                   hist, evals>>

\* lines 179-180
CheckBreak ==
    /\ pc = "check"
    /\ pc' = IF LoopBreak(conditionals) THEN "after" ELSE "sleep"
    /\ UNCHANGED <<params, wait_for, conditionals, retries, responses, iter, idx,
                   outcome, failed_conditions, stdout, stdout_lines, calls, sleeps, slept,
                   hist, evals>>

\* the sleep without the decrement of retries
SleepNoDecrement ==
    /\ pc = "sleep"
    /\ sleeps' = sleeps + 1
    /\ slept' = slept + params.interval
    /\ pc' = "while"
    /\ UNCHANGED <<params, wait_for, conditionals, retries, responses, iter, idx,
                   outcome, failed_conditions, stdout, stdout_lines, calls, hist,
                   evals>>

\* lines 182-183
SleepAndDecrement ==
    /\ pc = "sleep"
    /\ sleeps' = sleeps + 1
    /\ slept' = slept + params.interval
    /\ retries' = retries - 1
    /\ pc' = "while"
    /\ UNCHANGED <<params, wait_for, conditionals, responses, iter, idx, outcome,
                   failed_conditions, stdout, stdout_lines, calls, hist, evals>>

\* lines 185-188
FailJson ==
    /\ pc = "after"
    /\ HasFailed(conditionals)
    /\ failed_conditions' = FailedConditions(conditionals)
    /\ outcome' = "failed"
    /\ pc' = "done"
    /\ UNCHANGED <<params, wait_for, conditionals, retries, responses, iter, idx,
                   stdout, stdout_lines, calls, sleeps, slept, hist, evals>>

\* the result built from the batch of the first attempt
ExitJsonFirstBatch ==
    /\ pc = "after"
    /\ ~HasFailed(conditionals)
    /\ responses.bound
    /\ stdout' = [bound |-> TRUE, batch |-> 1, sat |-> hist[1]]
    /\ stdout_lines' = ToLines(Output(stdout'))
    /\ outcome' = "success"
    /\ pc' = "done"
    /\ UNCHANGED <<params, wait_for, conditionals, retries, responses, iter, idx,
                   failed_conditions, calls, sleeps, slept, hist, evals>>

\* lines 191-197
ExitJson ==
    /\ pc = "after"
    /\ ~HasFailed(conditionals)
    /\ responses.bound
    /\ stdout' = responses
    /\ stdout_lines' = ToLines(Output(responses))
    /\ outcome' = "success"
    /\ pc' = "done"
    /\ UNCHANGED <<params, wait_for, conditionals, retries, responses, iter, idx,
                   failed_conditions, calls, sleeps, slept, hist, evals>>

\* line 193 reads `responses` when no iteration of the loop has bound it
UnboundResponses ==
    /\ pc = "after"
    /\ ~HasFailed(conditionals)
    /\ ~responses.bound
    /\ outcome' = "unbound_error"
    /\ pc' = "done"
    /\ UNCHANGED <<params, wait_for, conditionals, retries, responses, iter, idx,
                   failed_conditions, stdout, stdout_lines, calls, sleeps, slept, hist, evals>>

Next ==
    \/ StartOk
    \/ StartFail
    \/ WhileTest
    \/ RunCommandsOk
    \/ RunCommandsFail
    \/ ForBody
    \/ ForDone
    \/ CheckBreak
    \/ SleepAndDecrement
    \/ FailJson
    \/ ExitJson
    \/ UnboundResponses

Spec == Init /\ [][Next]_vars

\* ------------------------------------------------------------ type check
TypeOK ==
    /\ pc \in {"start", "while", "run", "for", "check", "sleep", "after", "done"}
    /\ outcome \in {"running", "compile_error", "transport_error", "failed",
                    "success", "unbound_error"}
    /\ (pc = "done") <=> (outcome # "running")

\* ------------------------------------------------- vocabulary of the claims
Done == pc = "done"

\* the module ended with exit_json or with the failed_conditions fail_json
Returned == outcome \in {"success", "failed"}

\* retries is a usable budget: at least one attempt
PositiveBudget == params.retries >= 1

Attempts == 1 .. Len(hist)

\* the condition text t was true of the batch of some attempt of the session
EverTrue(t) == \E k \in Attempts : t \in hist[k]

\* some supplied condition was true of the batch of attempt k
SomeTrueOn(k) == hist[k] \cap Range(wait_for) # {}

RECURSIVE IsSubseq(_, _)
IsSubseq(s, t) ==
    IF s = <<>> THEN TRUE
    ELSE IF t = <<>> THEN FALSE
    ELSE IF Head(s) = Head(t) THEN IsSubseq(Tail(s), Tail(t))
    ELSE IsSubseq(s, Tail(t))

\* ------------------------------------------------------------------ C1
\* C1: match=all, wait_for non-empty, retries >= 1: a session that returns
\* succeeds iff every supplied condition was true of the batch of at least
\* one attempt in 1..retries; a failing session has seen all `retries`
\* batches, so "never true" covers every attempt of the budget.
C1_AllSucceedsIffEachEverTrue ==
    (Done /\ Returned /\ params.match = "all" /\ wait_for # <<>> /\ PositiveBudget)
        => /\ (outcome = "success") <=> (\A i \in 1 .. Len(wait_for) : EverTrue(wait_for[i]))
           /\ (outcome = "failed") => Len(hist) = params.retries

\* a success under "all" whose conditions were never true of the same batch
C1_Witness ==
    /\ Done /\ outcome = "success" /\ params.match = "all"
    /\ Len(wait_for) >= 2
    /\ calls >= 2
    /\ \A k \in Attempts : ~(Range(wait_for) \subseteq hist[k])

\* ------------------------------------------------------------------ C2
\* C2: match=any, wait_for non-empty, retries >= 1: no batch before the
\* latest one made any supplied condition true (so the session stops at the
\* first such attempt); a session that returns succeeds iff some condition
\* was true of some batch, a failing one has seen all `retries` batches, and
\* a success stops at that attempt, reporting no failed conditions.
C2_AnySucceedsOnFirstTrue ==
    (params.match = "any" /\ wait_for # <<>> /\ PositiveBudget)
        => /\ \A k \in Attempts : SomeTrueOn(k) => k = calls
           /\ (Done /\ Returned)
                => /\ (outcome = "success") <=> (\E k \in Attempts : SomeTrueOn(k))
                   /\ (outcome = "failed") => Len(hist) = params.retries
                   /\ (outcome = "success")
                        => /\ SomeTrueOn(calls)
                           /\ failed_conditions = <<>>
                           /\ conditionals = <<>>

\* a success under "any" on attempt 1 although another condition was not true
C2_Witness ==
    /\ Done /\ outcome = "success" /\ params.match = "any"
    /\ calls = 1
    /\ params.retries >= 2
    /\ \E i \in 1 .. Len(wait_for) : ~EverTrue(wait_for[i])

\* ------------------------------------------------------------------ C3
\* C3: with wait_for empty or absent and retries >= 1 the session ends after
\* exactly one run_commands and no sleep, whatever retries and match are,
\* and it ends in success unless that one run_commands itself failed.
C3_EmptyWaitForRunsOnce ==
    (Done /\ wait_for = <<>> /\ PositiveBudget)
        => /\ calls = 1
           /\ sleeps = 0
           /\ slept = 0
           /\ outcome \in {"success", "transport_error"}
           /\ (outcome = "success") <=> (Len(hist) = 1)

\* wait_for absent, the largest budget, match=any: one attempt, success
C3_Witness ==
    /\ Done /\ outcome = "success"
    /\ ~params.wait_for.present
    /\ params.retries = MaxRetries
    /\ params.match = "any"
    /\ calls = 1

\* ------------------------------------------------------------------ C4
\* C4: run_commands is never invoked more than `retries` times, and a
\* session whose conditions compiled and whose retries >= 1 has invoked it
\* at least once when it ends.
C4_AttemptCountBound ==
    /\ calls <= (IF params.retries > 0 THEN params.retries ELSE 0)
    /\ (Done /\ PositiveBudget /\ outcome # "compile_error") => calls >= 1

\* the whole budget used
C4_Witness ==
    /\ Done /\ outcome = "failed"
    /\ params.retries = MaxRetries
    /\ calls = MaxRetries

\* ------------------------------------------------------------------ C5
\* C5: when a session with retries >= 1 ends, the number of sleeps is the
\* number of run_commands invocations minus one (no sleep after the final
\* attempt), also when the budget ran out with conditions unsatisfied.
C5_NoSleepAfterFinalAttempt ==
    (Done /\ PositiveBudget /\ outcome # "compile_error")
        => /\ sleeps = calls - 1
           /\ slept = (calls - 1) * params.interval

\* ------------------------------------------------------------------ C6
\* the supplied condition texts that were true of no batch, in supplied order
NeverTrue(t) == ~EverTrue(t)

NeverTrueConditions == SelectSeq(wait_for, NeverTrue)

\* C6: the failed_conditions of the failure result are exactly the supplied
\* conditions that were true of no batch of the session, none listed that
\* was true of some batch and none omitted; under match=any that is the
\* whole wait_for list.
C6_FailureNamesNeverTrue ==
    (outcome = "failed")
        => /\ failed_conditions = NeverTrueConditions
           /\ (params.match = "any") => failed_conditions = wait_for

\* a failure under match=all after some, not all, conditions became true
C6_Witness ==
    /\ outcome = "failed" /\ params.match = "all"
    /\ Len(hist) >= 2
    /\ \E i \in 1 .. Len(wait_for) : EverTrue(wait_for[i])
    /\ Len(failed_conditions) < Len(wait_for)

\* ------------------------------------------------------------------ C7
\* the conditionals left keep the positions' order of wait_for
InSuppliedOrder(conds) ==
    /\ \A i \in 1 .. Len(conds) :
          conds[i].id \in 1 .. Len(wait_for) /\ conds[i].raw = wait_for[conds[i].id]
    /\ \A i, j \in 1 .. Len(conds) : i < j => conds[i].id < conds[j].id

\* C7: at every point of the session the conditionals left are the supplied
\* ones in their supplied relative order, and the failed_conditions of a
\* failure are their texts: a subsequence of wait_for, duplicates included.
C7_FailedConditionsKeepOrder ==
    /\ (pc # "start") => InSuppliedOrder(conditionals)
    /\ (outcome = "failed")
          => /\ failed_conditions = Raws(conditionals)
             /\ IsSubseq(failed_conditions, wait_for)

\* a failure with a duplicated text left, after the first conditional of
\* three was removed
C7_Witness ==
    /\ outcome = "failed" /\ params.match = "all"
    /\ Len(wait_for) = 3
    /\ Len(failed_conditions) = 2
    /\ failed_conditions[1] = failed_conditions[2]
    /\ conditionals[1].id = 2

\* ------------------------------------------------------------------ C8
\* an invocation of run_commands that returned no batch
RunnerFailed == calls # Len(hist)

\* C8: once run_commands has failed on attempt k the session is over with
\* the transport error: no conditional was evaluated on attempt k, the
\* sleeps are those of the k-1 earlier attempts, retries still counts the
\* attempts left, and there is neither a success nor a failed_conditions
\* result.
C8_TransportErrorIsFatal ==
    RunnerFailed
        => /\ calls = Len(hist) + 1
           /\ Done /\ outcome = "transport_error"
           /\ \A e \in 1 .. Len(evals) : evals[e].attempt < calls
           /\ sleeps = calls - 1
           /\ retries = params.retries - (calls - 1)
           /\ retries >= 1
           /\ failed_conditions = <<>>
           /\ stdout = Unbound

\* run_commands fails on a second or later attempt, budget left over
C8_Witness ==
    /\ outcome = "transport_error"
    /\ calls >= 2
    /\ calls < params.retries
    /\ evals # <<>>

\* ------------------------------------------------------------------ C9
\* C9: for retries >= 1, a session that leaves the loop ends in success iff
\* no conditional is left, and success reports no failed conditions; the
\* failed_conditions failure is non-empty and comes only after exactly
\* `retries` run_commands invocations, each of which returned a batch and
\* was followed by a sleep because conditionals were left.
C9_OutcomeDiscriminatedBySet ==
    PositiveBudget
        => /\ (Done /\ Returned) => ((outcome = "success") <=> (conditionals = <<>>))
           /\ (outcome = "success") => failed_conditions = <<>>
           /\ (outcome # "failed") => failed_conditions = <<>>
           /\ (outcome = "failed")
                => /\ failed_conditions # <<>>
                   /\ calls = params.retries
                   /\ Len(hist) = params.retries
                   /\ sleeps = params.retries
                   /\ retries = 0

\* the budget of MaxRetries used up with one conditional of two left
C9_Witness ==
    /\ outcome = "failed"
    /\ params.retries = MaxRetries
    /\ Len(wait_for) = 2
    /\ Len(conditionals) = 1
    /\ calls = MaxRetries

\* ------------------------------------------------------------------ C10
\* C10: retries <= 0 ends the session with an error before any attempt:
\* run_commands is never invoked, and the session ends neither in success
\* nor in the failed_conditions failure.
C10_NonPositiveRetriesIsError ==
    (params.retries <= 0)
        => /\ calls = 0
           /\ outcome \notin {"success", "failed"}

\* ------------------------------------------------------------------ C11
\* some supplied condition text does not compile
SomeBadCondition == Range(params.wait_for.list) \cap BadTexts # {}

\* C11: all conditions are compiled before the first run_commands: when any
\* supplied text fails to compile, at whatever position, run_commands is
\* never invoked, nothing is evaluated or slept, and the session ends with
\* the compile error; no other session ends with it.
C11_CompileErrorBeforeAnyAttempt ==
    /\ SomeBadCondition
          => /\ calls = 0
             /\ evals = <<>>
             /\ sleeps = 0
             /\ Done => outcome = "compile_error"
    /\ (outcome = "compile_error") => SomeBadCondition

\* the bad text is the last of three, behind two that compile
C11_Witness ==
    /\ outcome = "compile_error"
    /\ Len(params.wait_for.list) = 3
    /\ params.wait_for.list[1] \in GoodTexts
    /\ params.wait_for.list[2] \in GoodTexts
    /\ params.wait_for.list[3] \in BadTexts
    /\ params.retries >= 1
    /\ calls = 0

\* ------------------------------------------------------------------ C12
\* C12: every result of a session with retries >= 1, the failed_conditions
\* failure as well as success, carries the batch of the last run_commands
\* as stdout (and its lines as stdout_lines); the failure carries the texts
\* of the conditionals left as well.
C12_EveryResultCarriesStdout ==
    (Returned /\ PositiveBudget)
        => /\ stdout.bound
           /\ stdout = responses
           /\ stdout_lines = ToLines(Output(responses))
           /\ (outcome = "failed") => failed_conditions = Raws(conditionals)

\* ------------------------------------------------------------------ C14
\* every supplied condition was true of some batch of the attempts 1..k
AllTrueBy(k) ==
    \A i \in 1 .. Len(wait_for) : \E j \in 1 .. k : j <= Len(hist) /\ wait_for[i] \in hist[j]

\* C14: under match=all a successful session has invoked run_commands
\* exactly k times for the smallest k >= 1 by which every supplied condition
\* was true of some batch: it never runs on once no conditional is left.
C14_AllStopsAtEarliestAttempt ==
    (outcome = "success" /\ params.match = "all")
        => /\ calls >= 1
           /\ AllTrueBy(calls)
           /\ (calls > 1) => ~AllTrueBy(calls - 1)

\* a true of batch 1 only, b true of batch 2 only, a budget of 3: 2 attempts
C14_Witness ==
    /\ outcome = "success" /\ params.match = "all"
    /\ wait_for = <<"a", "b">>
    /\ params.retries = 3
    /\ hist = <<{"a"}, {"b"}>>
    /\ calls = 2

\* ------------------------------------------------------------------ C15
\* the steps one pass of the while loop can take, at most
PassCost == MaxConds + 6

\* the attempts the loop test still grants
Remaining == IF retries > 0 THEN retries ELSE 0

\* a measure of the work left: the passes still granted, then the position
\* within the current pass
Rank ==
    CASE pc = "start" -> (MaxRetries + 2) * PassCost
      [] pc = "while" -> Remaining * PassCost + PassCost - 1
      [] pc = "run"   -> Remaining * PassCost + PassCost - 2
      [] pc = "for"   -> Remaining * PassCost + PassCost - 2 - idx
      [] pc = "check" -> Remaining * PassCost + 2
      [] pc = "sleep" -> Remaining * PassCost + 1
      [] pc = "after" -> 1
      [] pc = "done"  -> 0

\* The session can take a step.  At every position but "run" the guards of
\* the position's actions cover all cases (compiled or not, loop test true
\* or false, for loop exhausted or not, break or not, conditionals left or
\* not, responses bound or not); at "run" the count of calls must still be
\* within the model's range.
CanStep == pc # "done" /\ (pc = "run" => calls < MaxRetries + 1)

\* C15: every session ends, whatever the conditionals answer: each pass
\* through the sleep takes one from retries and returns to the loop test;
\* run_commands is only invoked with retries > 0 and, after the first
\* attempt, with conditionals left; until the module has ended a step is
\* always possible, and every step lowers a natural-number measure of the
\* work left, so no session runs forever.
C15_EverySessionTerminates ==
    /\ [][(pc = "sleep") => (retries' = retries - 1 /\ pc' = "while")]_vars
    /\ [](pc = "run" => (retries > 0 /\ (calls = 0 \/ conditionals # <<>>)))
    /\ [](Rank \in Nat)
    /\ [][Rank' < Rank]_vars
    /\ [](~Done => CanStep)

\* the budget of MaxRetries run down by conditions that are never true
C15_Witness ==
    /\ Done /\ outcome = "failed"
    /\ params.retries = MaxRetries
    /\ retries = 0
    /\ calls = MaxRetries
    /\ \A k \in Attempts : hist[k] = {}

\* ------------------------------------------------------------------ C16
\* the evaluations logged for attempt k, in the order they were made
EvalsOf(k) == LET OfK(e) == e.attempt = k IN SelectSeq(evals, OfK)

\* the conditionals among the first n of `iter` (the list as it was when the
\* attempt began) that the current batch does not make true
KeptOf(n) ==
    LET NotTrue(c) == c.raw \notin responses.sat
    IN  SelectSeq(SubSeq(iter, 1, n), NotTrue)

\* how many conditionals of `iter` the for loop has dealt with
Scanned == IF pc = "for" THEN idx - 1 ELSE Len(iter)

\* C16: under match=all, during and after the for loop of an attempt, the
\* evaluations of that attempt are those of the conditionals present when
\* the attempt began, each exactly once, in supplied order, each with the
\* verdict of the attempt's batch; the list left is exactly those not true
\* of the batch, followed by the ones not yet reached: a removal never makes
\* the loop skip or repeat a conditional.
C16_AllScansEachConditionalOnce ==
    (params.match = "all" /\ pc \in {"for", "check", "sleep"})
        => /\ responses.bound /\ responses.batch = calls
           /\ responses.sat = hist[calls]
           /\ Scanned <= Len(iter)
           /\ Len(EvalsOf(calls)) = Scanned
           /\ \A i \in 1 .. Scanned :
                 /\ EvalsOf(calls)[i].id = iter[i].id
                 /\ EvalsOf(calls)[i].val = (iter[i].raw \in hist[calls])
           /\ InSuppliedOrder(iter)
           /\ conditionals = KeptOf(Scanned) \o SubSeq(iter, Scanned + 1, Len(iter))

\* two neighbouring conditionals true of the same batch, both removed on
\* that attempt, the third kept
C16_Witness ==
    /\ params.match = "all" /\ pc = "check"
    /\ Len(iter) = 3
    /\ iter[1].raw \in responses.sat
    /\ iter[2].raw \in responses.sat
    /\ iter[3].raw \notin responses.sat
    /\ conditionals = <<iter[3]>>
    /\ Len(EvalsOf(calls)) = 3

\* ------------------------------------------------------------------ C17
\* no conditional is evaluated after an evaluation of it that was true
NoEvalAfterTrue ==
    \A e1, e2 \in 1 .. Len(evals) :
        (e1 < e2 /\ evals[e1].val) => evals[e2].id # evals[e1].id

\* C17: once built, the list of conditionals is always a subsequence of the
\* list compiled from wait_for and every step leaves it a subsequence of
\* what it was (it never regains a member); under match=all a conditional
\* is never evaluated again after it was true, so a later batch of which it
\* is false cannot bring it back.
C17_ConditionalsOnlyShrink ==
    /\ [](pc # "start" => IsSubseq(conditionals, CompileAll(wait_for)))
    /\ [][pc # "start" => IsSubseq(conditionals', conditionals)]_vars
    /\ []((params.match = "all") => NoEvalAfterTrue)

\* success under match=all although the first condition, true of batch 1,
\* is false of batch 2
C17_Witness ==
    /\ outcome = "success" /\ params.match = "all"
    /\ Len(wait_for) >= 2
    /\ calls = 2
    /\ wait_for[1] \in hist[1]
    /\ wait_for[1] \notin hist[2]

\* ------------------------------------------------------------------ C18
\* some evaluation of the session was true
SomeEvalTrue == \E e \in 1 .. Len(evals) : evals[e].val

\* C18: under match=any the evaluations run through wait_for in supplied
\* order, attempt after attempt, and only the last evaluation of the session
\* can be true: the true one clears the whole list at once, so nothing later
\* in the supplied order is evaluated on that attempt and nothing at all on
\* a later attempt; until then the list is the full one.
C18_AnyStopsAtFirstTrue ==
    (params.match = "any" /\ pc # "start" /\ outcome # "compile_error"
        /\ wait_for # <<>>)
        => /\ \A e \in 1 .. Len(evals) :
                 /\ evals[e].id = ((e - 1) % Len(wait_for)) + 1
                 /\ evals[e].attempt = ((e - 1) \div Len(wait_for)) + 1
                 /\ evals[e].val => e = Len(evals)
           /\ SomeEvalTrue => (conditionals = <<>> /\ pc \in {"check", "after", "done"})
           /\ ~SomeEvalTrue => conditionals = CompileAll(wait_for)

\* three conditions false of batch 1; of batch 2 the first false, the second
\* true, the third, true as well, never evaluated
C18_Witness ==
    /\ Done /\ outcome = "success" /\ params.match = "any"
    /\ Len(wait_for) = 3
    /\ Len(evals) = 5
    /\ evals[5].id = 2
    /\ wait_for[3] \in hist[2]
    /\ wait_for[3] # wait_for[2]

\* ------------------------------------------------------------------ C19
\* C19: on success stdout is the batch of the latest run_commands of the
\* session, the one on which the list of conditionals became empty, and
\* stdout_lines are the lines of that batch: its text output split into the
\* line of `calls` marks and one line per condition true of it, its list
\* output unchanged; never those of an earlier batch.
C19_SuccessReturnsLatestBatch ==
    (outcome = "success")
        => /\ Len(hist) = calls
           /\ stdout.bound
           /\ stdout.batch = calls
           /\ stdout.sat = hist[calls]
           /\ stdout = responses
           /\ Len(stdout_lines) = 2
           /\ stdout_lines[1][1] = [i \in 1 .. calls |-> "#"]
           /\ Len(stdout_lines[1]) = 1 + Cardinality(hist[calls])
           /\ \A t \in hist[calls] : \E l \in 2 .. Len(stdout_lines[1]) : stdout_lines[1][l] = <<t>>
           /\ stdout_lines[2] = <<calls>>

\* the first condition was true of batch 1 only; the result is batch 2
C19_Witness ==
    /\ outcome = "success" /\ params.match = "all"
    /\ calls = 2
    /\ wait_for[1] \in hist[1] \ hist[2]
    /\ hist[2] # {}
    /\ stdout.batch = 2
    /\ Len(stdout_lines[1]) >= 2

\* ------------------------------------------------------------------ C20
\* C20: for every value of retries, 0 and negative ones included, and every
\* wait_for, the empty one included: whenever the success path is about to
\* build its result from `responses`, run_commands has been invoked and has
\* bound `responses`; the module never ends on the read of an unbound name.
C20_ResponsesBoundBeforeRead ==
    /\ (pc = "after" /\ ~HasFailed(conditionals)) => (calls >= 1 /\ responses.bound)
    /\ outcome # "unbound_error"
====
